---------------------------- MODULE Spec2Model ----------------------------
(***************************************************************************)
(* Model of src/server/utils/analytics/hot-issue-analyzer.ts.              *)
(*                                                                         *)
(* analyzeAndSaveHotIssue is an async function: every `await` is a point   *)
(* at which other invocations may run, so each awaited storage or          *)
(* completion-service operation is one atomic action of the invocation     *)
(* that issued it.  Confidences are numbers in hundredths (42 is 0.42,     *)
(* 100 is 1, 170 is 1.7, -30 is -0.3).  The Chinese fallback labels are    *)
(* written in ASCII: "other" for the fallback name, "unclassified" for     *)
(* the fallback description.                                               *)
(***************************************************************************)
EXTENDS Integers, Sequences, FiniteSets, TLC

VARIABLES
    apiKey,          \* OPENAI_CONFIG.apiKey is set
    analysisModel,   \* OPENAI_CONFIG.analysisModel is set
    tags,            \* rows of schema.tags, in insertion order
    ticketsTags,     \* rows of schema.ticketsTags, in insertion order
    pc,              \* per invocation: the await it is suspended at
    ticketId,        \* per invocation: argument ticketId
    existingTags,    \* per invocation: local existingTags
    analysis,        \* per invocation: local analysis
    tagId,           \* per invocation: local tagId (0 = not yet assigned)
    isLinked,        \* per invocation: local isLinked
    rawConfidence,   \* history: result.confidence as the service returned it
    trace,           \* history: the steps the invocation has performed
    failedAt,        \* history: the step whose failure ended the invocation
    createdTag,      \* history: id of the tag row the invocation inserted
    createdLink,     \* history: the invocation inserted a link row
    initialTags,     \* history: the tag table before the first invocation
    atCall,          \* history: both tables at the latest call
    description,     \* buildUserContent: the ticket document
    content          \* buildUserContent: the returned content blocks

pipeVars == <<apiKey, analysisModel, tags, ticketsTags, pc, ticketId,
              existingTags, analysis, tagId, isLinked, rawConfidence, trace,
              failedAt, createdTag, createdLink, initialTags, atCall>>
docVars == <<description, content>>
vars == <<pipeVars, docVars>>

----------------------------------------------------------------------------
(* Bounds *)

MaxInvocations == 2
MaxNodes == 9

Invocations == 1..MaxInvocations
Tickets == {"t1", "t2"}
\* Ticket ids are opaque and interchangeable: "t1" names the ticket of the
\* first call, later calls are for the same ticket or for another one.
TicketsFor(p) == IF p = 1 THEN {"t1"} ELSE Tickets
\* What the completion service may resolve with: every raw confidence the
\* clamp distinguishes (below 0, 0, inside, 1, above 1), a present and a
\* missing name, a present and a missing description, and the same name with
\* different descriptions and confidences.
RawResults ==
    {[name |-> "net", description |-> "d1", confidence |-> 42],
     [name |-> "net", description |-> "",   confidence |-> 170],
     [name |-> "net", description |-> "d1", confidence |-> 100],
     [name |-> "",    description |-> "d1", confidence |-> -30],
     [name |-> "",    description |-> "",   confidence |-> 0]}
Nodes == {"text", "img1", "img2"}
Title == "title"

NoAnalysis == [name |-> "", description |-> "", confidence |-> -1]
None == "none"

----------------------------------------------------------------------------
(* CONFIG *)

MAX_EXISTING_TAGS == 50
DEFAULT_CONFIDENCE == 50

----------------------------------------------------------------------------
(* Storage, as the schema declares it *)

\* schema.tags carries no unique constraint on name.
UniqueTagName == FALSE
\* schema.ticketsTags carries no unique constraint on (ticketId, tagId).
UniqueTicketTag == FALSE
\* The id column is a serial; rows are never deleted.
SerialId(table) == Len(table) + 1

Range(s) == {s[i] : i \in DOMAIN s}

----------------------------------------------------------------------------
(* getExistingTags *)

UsageCount(links, id) == Cardinality({i \in DOMAIN links : links[i].tagId = id})

\* Index of the first row of rows with the highest usage count (rows of equal
\* count are left in table order; the result only feeds the system prompt).
FirstMax(rows) ==
    CHOOSE i \in DOMAIN rows :
        /\ \A j \in DOMAIN rows : rows[j].usageCount <= rows[i].usageCount
        /\ \A j \in 1..(i - 1) : rows[j].usageCount < rows[i].usageCount

Without(rows, i) == [j \in 1..(Len(rows) - 1) |-> IF j < i THEN rows[j] ELSE rows[j + 1]]

RECURSIVE OrderByUsageDesc(_)
OrderByUsageDesc(rows) ==
    IF rows = <<>> THEN <<>>
    ELSE LET i == FirstMax(rows)
         IN  <<rows[i]>> \o OrderByUsageDesc(Without(rows, i))

Limit(rows, n) == IF Len(rows) <= n THEN rows ELSE SubSeq(rows, 1, n)

getExistingTags(tgs, links) ==
    Limit(OrderByUsageDesc(
              [i \in DOMAIN tgs |->
                  [name |-> tgs[i].name,
                   description |-> tgs[i].description,
                   usageCount |-> UsageCount(links, tgs[i].id)]]),
          MAX_EXISTING_TAGS)

----------------------------------------------------------------------------
(* findOrCreateTag *)

\* select().from(tags).where(eq(tags.name, name)).limit(1): ids of the
\* matching rows; the code takes existing[0].
FindTagByName_ne(tgs, name) == {i \in DOMAIN tgs : tgs[i].name # name}
FindTagByName_desc(tgs, name) == {i \in DOMAIN tgs : tgs[i].description = name}
FindTagByName(tgs, name) == {i \in DOMAIN tgs : tgs[i].name = name}

FirstOf(S) == CHOOSE i \in S : \A j \in S : i <= j

\* insert(tags).values({name, description, isAiGenerated: true}).returning(id)
InsertTag_upsert(tgs, name, desc) ==
    IF FindTagByName(tgs, name) # {}
    THEN [table |-> tgs, id |-> tgs[FirstOf(FindTagByName(tgs, name))].id]
    ELSE [table |-> Append(tgs, [id |-> SerialId(tgs), name |-> name,
                                 description |-> desc, isAiGenerated |-> TRUE]),
          id |-> SerialId(tgs)]
InsertTag(tgs, name, desc) ==
    [table |-> Append(tgs, [id |-> SerialId(tgs), name |-> name,
                            description |-> desc, isAiGenerated |-> TRUE]),
     id |-> SerialId(tgs)]

----------------------------------------------------------------------------
(* isTicketTagLinked, linkTicketToTag *)

MatchingLinks(links, t, g) ==
    {i \in DOMAIN links : links[i].ticketId = t /\ links[i].tagId = g}

isTicketTagLinked_gt1(links, t, g) == Cardinality(MatchingLinks(links, t, g)) > 1
isTicketTagLinked(links, t, g) == Cardinality(MatchingLinks(links, t, g)) > 0

linkTicketToTag(links, t, g, confidence) ==
    Append(links, [ticketId |-> t, tagId |-> g, confidence |-> confidence,
                   isAiGenerated |-> TRUE])

----------------------------------------------------------------------------
(* analyzeWithAI: the returned object *)

Min2(a, b) == IF a <= b THEN a ELSE b
Max2(a, b) == IF a >= b THEN a ELSE b

\* x || y on numbers, strings: y when x is falsy (0, "").
OrNumber(x, y) == IF x = 0 THEN y ELSE x
OrString(x, y) == IF x = "" THEN y ELSE x

\* Math.min(Math.max(result.confidence || CONFIG.DEFAULT_CONFIDENCE, 0), 1)
NormalizeConfidence_nomin(r) == Max2(OrNumber(r, DEFAULT_CONFIDENCE), 0)
NormalizeConfidence(r) == Min2(Max2(OrNumber(r, DEFAULT_CONFIDENCE), 0), 100)

AnalysisResult(result) ==
    [name |-> OrString(result.name, "other"),
     description |-> OrString(result.description, "unclassified"),
     confidence |-> NormalizeConfidence(result.confidence)]

----------------------------------------------------------------------------
(* buildUserContent *)

\* extractImageUrls: the image references of the document, in document order.
RECURSIVE extractImageUrls(_)
extractImageUrls(doc) ==
    IF doc = <<>> THEN <<>>
    ELSE (IF Head(doc) = "text" THEN <<>> ELSE <<Head(doc)>>)
         \o extractImageUrls(Tail(doc))

\* extractTextWithoutImages: the text of the document, images dropped.
RECURSIVE extractTextWithoutImages(_)
extractTextWithoutImages(doc) ==
    IF doc = <<>> THEN <<>>
    ELSE (IF Head(doc) = "text" THEN <<Head(doc)>> ELSE <<>>)
         \o extractTextWithoutImages(Tail(doc))

\* Array.prototype.slice(0, n)
Slice0(s, n) == SubSeq(s, 1, Min2(Len(s), n))

TextBlock(title, doc) ==
    [type |-> "text", text |-> <<title, extractTextWithoutImages(doc)>>, url |-> ""]
ImageBlock(u) == [type |-> "image_url", text |-> <<>>, url |-> u]

buildUserContent_noslice(title, doc) ==
    <<TextBlock(title, doc)>>
    \o [i \in DOMAIN extractImageUrls(doc) |-> ImageBlock(extractImageUrls(doc)[i])]
buildUserContent(title, doc) ==
    LET imageUrls == Slice0(extractImageUrls(doc), 6)
    IN  <<TextBlock(title, doc)>>
        \o [i \in DOMAIN imageUrls |-> ImageBlock(imageUrls[i])]

----------------------------------------------------------------------------
(* analyzeAndSaveHotIssue *)

Steps == <<"getExistingTags", "analyzeWithAI", "findOrCreateTag.select",
           "findOrCreateTag.insert", "isTicketTagLinked", "linkTicketToTag">>

StepIndex(s) == CHOOSE i \in DOMAIN Steps : Steps[i] = s

\* if (!OPENAI_CONFIG.apiKey) throw ...; if (!OPENAI_CONFIG.analysisModel) throw ...
ConfigOk_keyonly == apiKey
ConfigOk == apiKey /\ analysisModel

\* No step is wrapped in try/catch: a rejected await rejects the invocation.
OnFailure_swallow(s) == IF s = "isTicketTagLinked" THEN "linkTicketToTag" ELSE "error"
OnFailure(s) == "error"

SeedTag == [id |-> 1, name |-> "net", description |-> "seed", isAiGenerated |-> FALSE]

PipeInit ==
    /\ apiKey \in BOOLEAN
    /\ analysisModel \in BOOLEAN
    /\ tags \in {<<>>, <<SeedTag>>}
    /\ initialTags = tags
    /\ ticketsTags = <<>>
    /\ atCall = [tags |-> tags, ticketsTags |-> <<>>]
    /\ pc = [p \in Invocations |-> "idle"]
    /\ ticketId = [p \in Invocations |-> None]
    /\ existingTags = [p \in Invocations |-> <<>>]
    /\ analysis = [p \in Invocations |-> NoAnalysis]
    /\ tagId = [p \in Invocations |-> 0]
    /\ isLinked = [p \in Invocations |-> FALSE]
    /\ rawConfidence = [p \in Invocations |-> 0]
    /\ trace = [p \in Invocations |-> <<>>]
    /\ failedAt = [p \in Invocations |-> None]
    /\ createdTag = [p \in Invocations |-> 0]
    /\ createdLink = [p \in Invocations |-> FALSE]

Init ==
    /\ PipeInit
    /\ description = <<>>
    /\ content = <<>>

Settled(p) == pc[p] \in {"idle", "done", "error"}

\* The call itself: the configuration checks, then the first await is issued.
\* Invocations are numbered in the order they are called.
Call(p, t) ==
    /\ pc[p] = "idle"
    /\ IF p = 1 THEN TRUE ELSE pc[p - 1] # "idle"
    /\ ticketId' = [ticketId EXCEPT ![p] = t]
    /\ IF ConfigOk
       THEN /\ pc' = [pc EXCEPT ![p] = "getExistingTags"]
            /\ UNCHANGED failedAt
       ELSE /\ pc' = [pc EXCEPT ![p] = "error"]
            /\ failedAt' = [failedAt EXCEPT ![p] = "config"]
    /\ atCall' = [tags |-> tags, ticketsTags |-> ticketsTags]
    /\ UNCHANGED <<apiKey, analysisModel, tags, ticketsTags, existingTags,
                   analysis, tagId, isLinked, rawConfidence, trace,
                   createdTag, createdLink, initialTags, docVars>>

Start(p) == \E t \in TicketsFor(p) : Call(p, t)

\* One invocation at a time: called only when no other invocation is running.
SeqStart(p) ==
    /\ \A q \in Invocations : Settled(q)
    /\ \E t \in TicketsFor(p) : Call(p, t)

Did(p, s) == trace' = [trace EXCEPT ![p] = Append(@, s)]

GetExistingTags(p) ==
    /\ pc[p] = "getExistingTags"
    /\ Did(p, "getExistingTags")
    /\ existingTags' = [existingTags EXCEPT ![p] = getExistingTags(tags, ticketsTags)]
    /\ pc' = [pc EXCEPT ![p] = "analyzeWithAI"]
    /\ UNCHANGED <<apiKey, analysisModel, tags, ticketsTags, ticketId,
                   analysis, tagId, isLinked, rawConfidence, failedAt,
                   createdTag, createdLink, initialTags, atCall, docVars>>

\* structuredModel.invoke resolves with some result; the object returned is
\* built from it.  existingTags is read here for the last time (it goes into
\* the system prompt) and is dropped.
AnalyzeWithAI(p) ==
    /\ pc[p] = "analyzeWithAI"
    /\ Did(p, "analyzeWithAI")
    /\ \E result \in RawResults :
          /\ rawConfidence' = [rawConfidence EXCEPT ![p] = result.confidence]
          /\ analysis' = [analysis EXCEPT ![p] = AnalysisResult(result)]
    /\ existingTags' = [existingTags EXCEPT ![p] = <<>>]
    /\ pc' = [pc EXCEPT ![p] = "findOrCreateTag.select"]
    /\ UNCHANGED <<apiKey, analysisModel, tags, ticketsTags, ticketId,
                   tagId, isLinked, failedAt,
                   createdTag, createdLink, initialTags, atCall, docVars>>

\* findOrCreateTag, the select: returns existing[0].id when a row matches.
\* The query has limit(1) and no ORDER BY: with several matching rows any of
\* them may be existing[0].
FindTag(p) ==
    /\ pc[p] = "findOrCreateTag.select"
    /\ Did(p, "findOrCreateTag.select")
    /\ LET existing == FindTagByName(tags, analysis[p].name)
       IN  IF existing # {}
           THEN /\ \E i \in existing : tagId' = [tagId EXCEPT ![p] = tags[i].id]
                /\ pc' = [pc EXCEPT ![p] = "isTicketTagLinked"]
           ELSE /\ pc' = [pc EXCEPT ![p] = "findOrCreateTag.insert"]
                /\ UNCHANGED tagId
    /\ UNCHANGED <<apiKey, analysisModel, tags, ticketsTags, ticketId,
                   existingTags, analysis, isLinked, rawConfidence, failedAt,
                   createdTag, createdLink, initialTags, atCall, docVars>>

\* findOrCreateTag, the insert: returns result[0].id.
CreateTag(p) ==
    /\ pc[p] = "findOrCreateTag.insert"
    /\ ~(UniqueTagName /\ FindTagByName(tags, analysis[p].name) # {})
    /\ Did(p, "findOrCreateTag.insert")
    /\ LET result == InsertTag(tags, analysis[p].name, analysis[p].description)
       IN  /\ tags' = result.table
           /\ tagId' = [tagId EXCEPT ![p] = result.id]
           /\ createdTag' = [createdTag EXCEPT ![p] =
                  IF result.table # tags THEN result.id ELSE 0]
    /\ pc' = [pc EXCEPT ![p] = "isTicketTagLinked"]
    /\ UNCHANGED <<apiKey, analysisModel, ticketsTags, ticketId,
                   existingTags, analysis, isLinked, rawConfidence, failedAt,
                   createdLink, initialTags, atCall, docVars>>

IsTicketTagLinked(p) ==
    /\ pc[p] = "isTicketTagLinked"
    /\ Did(p, "isTicketTagLinked")
    /\ LET linked == isTicketTagLinked(ticketsTags, ticketId[p], tagId[p])
       IN  /\ isLinked' = [isLinked EXCEPT ![p] = linked]
           /\ pc' = [pc EXCEPT ![p] = IF linked THEN "done" ELSE "linkTicketToTag"]
    /\ UNCHANGED <<apiKey, analysisModel, tags, ticketsTags, ticketId,
                   existingTags, analysis, tagId, rawConfidence, failedAt,
                   createdTag, createdLink, initialTags, atCall, docVars>>

LinkTicketToTag(p) ==
    /\ pc[p] = "linkTicketToTag"
    /\ ~(UniqueTicketTag /\ isTicketTagLinked(ticketsTags, ticketId[p], tagId[p]))
    /\ Did(p, "linkTicketToTag")
    /\ ticketsTags' = linkTicketToTag(ticketsTags, ticketId[p], tagId[p],
                                      analysis[p].confidence)
    /\ createdLink' = [createdLink EXCEPT ![p] = TRUE]
    /\ pc' = [pc EXCEPT ![p] = "done"]
    /\ UNCHANGED <<apiKey, analysisModel, tags, ticketId,
                   existingTags, analysis, tagId, isLinked, rawConfidence,
                   failedAt, createdTag, initialTags, atCall, docVars>>

\* The awaited operation rejects (PersistenceError, ServiceError): it has no
\* effect on the tables and the rejection propagates.
Throw(p) ==
    /\ pc[p] \in Range(Steps)
    /\ Did(p, pc[p])
    /\ failedAt' = [failedAt EXCEPT ![p] = pc[p]]
    /\ pc' = [pc EXCEPT ![p] = OnFailure(pc[p])]
    /\ UNCHANGED <<apiKey, analysisModel, tags, ticketsTags, ticketId,
                   existingTags, analysis, tagId, isLinked, rawConfidence,
                   createdTag, createdLink, initialTags, atCall, docVars>>

Next ==
    \E p \in Invocations :
        \/ Start(p)
        \/ GetExistingTags(p)
        \/ AnalyzeWithAI(p)
        \/ FindTag(p)
        \/ CreateTag(p)
        \/ IsTicketTagLinked(p)
        \/ LinkTicketToTag(p)
        \/ Throw(p)

Spec == Init /\ [][Next]_vars

SeqNext ==
    \E p \in Invocations :
        \/ SeqStart(p)
        \/ GetExistingTags(p)
        \/ AnalyzeWithAI(p)
        \/ FindTag(p)
        \/ CreateTag(p)
        \/ IsTicketTagLinked(p)
        \/ LinkTicketToTag(p)
        \/ Throw(p)

SeqSpec == Init /\ [][SeqNext]_vars

----------------------------------------------------------------------------
(* buildUserContent applied to a document *)

Docs == UNION {[1..n -> Nodes] : n \in 0..MaxNodes}

ContentInit ==
    /\ PipeInit
    /\ apiKey /\ analysisModel /\ tags = <<>>
    /\ description \in Docs
    /\ content = <<>>

BuildUserContent ==
    /\ content = <<>>
    /\ content' = buildUserContent(Title, description)
    /\ UNCHANGED <<pipeVars, description>>

ContentNext == BuildUserContent

ContentSpec == ContentInit /\ [][ContentNext]_vars

----------------------------------------------------------------------------
(* Properties *)

Links == DOMAIN ticketsTags
Earlier(p, q) == p < q
Returned(p) == tagId[p] # 0
Latest(p) == pc[p] # "idle" /\ \A q \in Invocations : q > p => pc[q] = "idle"
TagRows(id) == {i \in DOMAIN tags : tags[i].id = id}
InsertDone(p) ==
    /\ tagId[p] # 0
    /\ \E i \in DOMAIN trace[p] : trace[p][i] = "findOrCreateTag.insert"

\* C1: every row of the link table has a confidence in [0,1], whatever raw
\* confidence (negative, above 1, zero, in between) the completion service
\* returned and however many invocations ran.
C1_LinkConfidenceInRange ==
    \A i \in Links : ticketsTags[i].confidence >= 0 /\ ticketsTags[i].confidence <= 100

\* A link was inserted from a raw confidence above 1 and another from a raw
\* confidence below 0.
C1_Witness ==
    \E p, q \in Invocations :
        /\ createdLink[p] /\ rawConfidence[p] > 100
        /\ createdLink[q] /\ rawConfidence[q] < 0

\* The first completed run for ticket t whose analysis named n.
FirstRun(t, n) ==
    CHOOSE p \in Invocations :
        /\ pc[p] = "done" /\ ticketId[p] = t /\ analysis[p].name = n
        /\ \A q \in Invocations :
              (pc[q] = "done" /\ ticketId[q] = t /\ analysis[q].name = n) => p <= q

\* C2: when two runs complete one after the other for the same ticket with
\* analyses naming the same tag, the second run inserts no link: exactly one
\* row exists for the (ticketId, tagId) pair and its confidence is the one of
\* the first run, also when the second analysis returned another confidence.
C2_SecondRunIsNoOp ==
    \A p, q \in Invocations :
        (/\ Earlier(p, q)
         /\ pc[p] = "done" /\ pc[q] = "done"
         /\ ticketId[p] = ticketId[q]
         /\ analysis[p].name = analysis[q].name)
        => /\ tagId[p] = tagId[q]
           /\ ~createdLink[q]
           /\ Cardinality(MatchingLinks(ticketsTags, ticketId[q], tagId[q])) = 1
           /\ \A i \in MatchingLinks(ticketsTags, ticketId[q], tagId[q]) :
                 ticketsTags[i].confidence =
                     analysis[FirstRun(ticketId[q], analysis[q].name)].confidence

\* Two runs completed for the same ticket and tag, the second analysis with
\* a different confidence.
C2_Witness ==
    \E p, q \in Invocations :
        /\ Earlier(p, q)
        /\ pc[p] = "done" /\ pc[q] = "done"
        /\ ticketId[p] = ticketId[q]
        /\ analysis[p].name = analysis[q].name
        /\ analysis[p].confidence # analysis[q].confidence
        /\ createdLink[p]

\* C3: at most one link row per (ticketId, tagId) pair in every reachable
\* state, the storage steps of the invocations interleaving freely.
C3_AtMostOneLinkPerPair ==
    \A i, j \in Links :
        (ticketsTags[i].ticketId = ticketsTags[j].ticketId
         /\ ticketsTags[i].tagId = ticketsTags[j].tagId) => i = j

\* C4: two calls of findOrCreateTag in sequence with the same name: both
\* return the same id, the second inserts no row, and when the first call
\* wrote the tag its description stays the stored one (first write wins).
C4_FirstWriteWins ==
    \A p, q \in Invocations :
        (/\ Earlier(p, q)
         /\ Returned(p) /\ Returned(q)
         /\ analysis[p].name = analysis[q].name)
        => /\ tagId[p] = tagId[q]
           /\ createdTag[q] = 0
           /\ createdTag[p] # 0 =>
                 /\ Cardinality(TagRows(tagId[p])) = 1
                 /\ \A i \in TagRows(tagId[p]) :
                       tags[i].description = analysis[p].description

\* The first call created the tag and the second call, with the same name
\* and a different description, has returned.
C4_Witness ==
    \E p, q \in Invocations :
        /\ Earlier(p, q)
        /\ Returned(p) /\ Returned(q)
        /\ createdTag[p] # 0
        /\ analysis[p].name = analysis[q].name
        /\ analysis[p].description # analysis[q].description

\* C5: with the credential or the model identifier absent every invocation
\* ends in the configuration error having performed no step: no storage
\* read, no storage write, no completion call; both tables are unchanged.
C5_ConfigErrorBeforeAnyStep ==
    ~(apiKey /\ analysisModel) =>
        /\ tags = initialTags
        /\ ticketsTags = <<>>
        /\ \A p \in Invocations :
              /\ trace[p] = <<>>
              /\ pc[p] \in {"idle", "error"}
              /\ pc[p] = "error" => failedAt[p] = "config"

\* The credential is present, the model identifier is not, and every
\* invocation has been called.
C5_Witness ==
    /\ apiKey /\ ~analysisModel
    /\ \A p \in Invocations : pc[p] = "error"

\* C6: a failure at a step ends the invocation with that error; the steps
\* it performed are those up to the failed one, in order, and none after it;
\* nothing written before is undone.  A failure of the tag fetch or of the
\* completion call leaves both tables as they were at the call; a failure of
\* the link check or the link insert after the tag was created leaves the
\* tag in the table with no link to it.
C6_FailureAbortsWithoutRollback ==
    \A p \in Invocations :
        (failedAt[p] # None /\ failedAt[p] # "config") =>
            /\ pc[p] = "error"
            /\ trace[p] # <<>>
            /\ trace[p][Len(trace[p])] = failedAt[p]
            /\ \A i, j \in DOMAIN trace[p] :
                  i < j => StepIndex(trace[p][i]) < StepIndex(trace[p][j])
            /\ ~createdLink[p]
            /\ failedAt[p] \notin {"isTicketTagLinked", "linkTicketToTag"}
                  => createdTag[p] = 0
            /\ createdTag[p] # 0 =>
                  \E i \in DOMAIN tags :
                      /\ tags[i].id = createdTag[p]
                      /\ tags[i].name = analysis[p].name
                      /\ tags[i].description = analysis[p].description
            /\ (Latest(p) /\ failedAt[p] \in {"getExistingTags", "analyzeWithAI"})
                  => (tags = atCall.tags /\ ticketsTags = atCall.ticketsTags)
            /\ (Latest(p) /\ createdTag[p] # 0)
                  => /\ Len(tags) = Len(atCall.tags) + 1
                     /\ SubSeq(tags, 1, Len(atCall.tags)) = atCall.tags
                     /\ ticketsTags = atCall.ticketsTags
                     /\ \A i \in Links : ticketsTags[i].tagId # createdTag[p]

\* The latest invocation created a tag and then failed at the link insert,
\* after an earlier invocation failed at the completion call.
C6_Witness ==
    \E p, q \in Invocations :
        /\ failedAt[p] = "analyzeWithAI"
        /\ Latest(q)
        /\ failedAt[q] = "linkTicketToTag"
        /\ createdTag[q] # 0

\* C7: buildUserContent returns 1 + min(n, 6) blocks for a document with n
\* image references: the text block, then the first min(n, 6) image URLs in
\* document order.
C7_UserContentBlocks ==
    content # <<>> =>
        LET imageUrls == extractImageUrls(description)
            k == IF Len(imageUrls) < 6 THEN Len(imageUrls) ELSE 6
        IN  /\ Len(content) = 1 + k
            /\ content[1].type = "text"
            /\ \A i \in 1..k :
                  /\ content[i + 1].type = "image_url"
                  /\ content[i + 1].url = imageUrls[i]

\* A document of 9 image references was built into 7 blocks.
C7_Witness ==
    /\ Len(extractImageUrls(description)) = 9
    /\ Len(content) = 7

Clamp01(r) == IF r < 0 THEN 0 ELSE IF r > 100 THEN 100 ELSE r

\* C8: the confidence of the result returned by analyzeWithAI is the raw
\* confidence clamped to [0,1]: 0 below 0, 1 above 1, the raw value itself
\* from 0 to 1 inclusive.
C8_ConfidenceIsClampedRaw ==
    \A p \in Invocations :
        analysis[p] # NoAnalysis => analysis[p].confidence = Clamp01(rawConfidence[p])

\* C9: two invocations whose lookups for the same name both found nothing
\* before either inserted have, once both inserts are done, received
\* different tag ids, and the tag table holds a row with that name for each.
C9_RacingCreatesDuplicateTags ==
    \A p, q \in Invocations :
        (/\ p # q
         /\ InsertDone(p) /\ InsertDone(q)
         /\ analysis[p].name = analysis[q].name)
        => /\ tagId[p] # tagId[q]
           /\ \E i, j \in DOMAIN tags :
                 /\ i # j
                 /\ tags[i].id = tagId[p] /\ tags[j].id = tagId[q]
                 /\ tags[i].name = analysis[p].name
                 /\ tags[j].name = analysis[p].name

\* Both invocations looked the same new name up, both inserted, and the
\* table holds two tags with that name.
C9_Witness ==
    \E p, q \in Invocations :
        /\ p # q
        /\ InsertDone(p) /\ InsertDone(q)
        /\ analysis[p].name = analysis[q].name
        /\ \E i, j \in DOMAIN tags : i # j /\ tags[i].name = tags[j].name

\* C10: invocations running one at a time, from a tag table of distinct
\* names: no two tags have the same name, whatever names the analyses
\* return and whether the invocations succeed or fail.
C10_TagNamesDistinct ==
    \A i, j \in DOMAIN tags : tags[i].name = tags[j].name => i = j

\* A tag was created by one invocation and found by a later one, which then
\* failed; the table holds two tags.
C10_Witness ==
    /\ Len(tags) = 2
    /\ \E p, q \in Invocations :
          /\ Earlier(p, q)
          /\ createdTag[p] # 0
          /\ tagId[q] = tagId[p]
          /\ pc[q] = "error"

============================================================================
